---------------------------- MODULE Spec2Model ----------------------------
(***************************************************************************)
(* Digitizer-ASCII: the chunked ASCII generator (ASCIIGeneratorService),   *)
(* the GIF frame compositor (GIFParserService) and the GIF block walker    *)
(* (GIFFrameDecoder), each as a state machine over one set of variables.   *)
(*                                                                         *)
(* Numbers: a brightness is an integer in per-mille (0..1000) or NaN; a    *)
(* contrast multiplier is an integer in tenths (10 = 1.0).                 *)
(***************************************************************************)
EXTENDS Integers, Sequences, FiniteSets, TLC

VARIABLES
    \* ---- one ASCIIGeneratorService call (generateMonochrome / generateColored)
    gpc,              \* Idle | Sampling | Yielding | Complete | Failed
    mode,             \* "mono" = generateMonochrome, "colored" = generateColored
    width, height,    \* the call's arguments, in characters
    imageData,        \* [width, height, pat]: the raster handed to the call
    originalImage,    \* NoImage or [width, height, pat]
    settings,         \* [inverted, contrast, edgeEnhanced]
    loadingService,   \* the service's constructor argument: NoService or "attached"
    chunkCfg,         \* CONFIG.LOADING.CHUNK_SIZE
    y,                \* the chunk loop's variable
    totalProcessed,
    coloredData,      \* rows of cells (generateColored)
    asciiText,        \* the text built so far, one character per element
    genError,         \* the message of the Error thrown, or NoError
    progressLog,      \* totalProcessed at each loadingService.updateProgress call
    yields,           \* awaits of loadingService.yield() taken
    rowsSinceYield,   \* rows processed since the call started or last resumed
    sampled,          \* cells sampled (getPixelData / multiSampleCharacterCell)
    \* ---- one GIFParserService.parseGIF call
    ppc,              \* the parser's position
    gif,              \* what GifReader and the browser make of the file
    frameInfos,       \* reader.frameInfo(i) of the frames reached so far
    frameIndex,       \* extractFrames' loop variable
    composite,        \* compositeCanvas: position -> colour
    frames,           \* extractFrames' frames array
    parseResult,      \* the document returned, or NoResult
    parseError,       \* the rejection that escapes parseGIF, or NoError
    \* ---- one GIFFrameDecoder.decode call
    dpc,              \* the decoder's position
    data,             \* the byte stream
    pos,              \* read position
    frameDelay,       \* the delay the next image block gets
    dframes,          \* decode's frames array (each frame's delay)
    headerParsed,     \* the screen descriptor has been read
    blocksSeen,       \* blocks examined by the block loop
    decodeResult,     \* the document returned, or NoResult
    decodeError,      \* the Error thrown, or NoError
    gceOf,            \* per frame, the delay of the GCE met since the frame before
                      \* (Undefined if none); its last entry is for the next frame
    \* ---- a second generation call on the same service
    suspended,        \* its parameters and locals while it is not running, or NoCall
    \* ---- the application's settings
    stateSettings,    \* this.state.settings (contrast in tenths)
    \* ---- one call of a function of the character or image services
    fnArgs,           \* the function called and its arguments
    fnResult,         \* [done |-> FALSE], or the value returned
    \* ---- dithering one grid in raster order
    errorMatrix,      \* the error field: cell -> accumulated error, in 64ths
    ditherCursor,     \* cells quantized so far
    residualSum,      \* the sum of the residuals of the cells quantized
    lastQuantized,    \* the cell quantized last and its residual, or NoCell
    prevMatrix,       \* the error field before that cell was quantized
    \* ---- the application (ASCIIDigitizer)
    state,            \* this.state
    ui,               \* the generate button and the loading overlay
    gens,             \* the handleGenerate calls past their guard, each with its locals
    timers,           \* the pending preview timeouts, each with its closure's index
    upload,           \* the handleGIFUpload call between two awaits, or NoUpload
    uploads,          \* files and captures loaded so far
    hist              \* what has happened: a generation threw, a colour
                      \* toggle met existing art, the last preview timer to fire

genVars == <<gpc, mode, width, height, imageData, originalImage, settings,
             loadingService, chunkCfg, y, totalProcessed, coloredData,
             asciiText, genError, progressLog, yields, rowsSinceYield, sampled>>
gifVars == <<ppc, gif, frameInfos, frameIndex, composite, frames, parseResult,
             parseError>>
decVars == <<dpc, data, pos, frameDelay, dframes, headerParsed, blocksSeen,
             decodeResult, decodeError, gceOf>>
pairVars == <<suspended>>
uiVars == <<stateSettings>>
fnVars == <<fnArgs, fnResult>>
ditherVars == <<errorMatrix, ditherCursor, residualSum, lastQuantized, prevMatrix>>
appVars == <<state, ui, gens, timers, upload, uploads, hist>>
auxVars == <<pairVars, uiVars, fnVars, ditherVars, appVars>>
vars == <<genVars, gifVars, decVars, auxVars>>

\* JavaScript's undefined and NaN where a number is expected, and undefined
\* where a character is expected
Undefined == 0 - 1
NaN       == 0 - 2
UndefinedChar == "undefined"
\* a null image argument
NoImage   == [width |-> 0, height |-> 0, pat |-> "null"]
NoService == "null"
NoError   == "none"
NoResult  == [result |-> "none"]
NoCall    == [gpc |-> "NoCall"]

Max(a, b) == IF a >= b THEN a ELSE b
Min(a, b) == IF a <= b THEN a ELSE b

(***************************************************************************)
(* Bounds of the model.                                                    *)
(***************************************************************************)
MaxWidth  == 3
MaxHeight == 2
MaxFrames == 2

(***************************************************************************)
(* CONFIG                                                                  *)
(***************************************************************************)
CHUNK_SIZE == 20
MULTI_SAMPLE_GRID == 2
\* the glyph U+0060, which a string of this language cannot hold, by its name
Backtick == "grave"
ASCII_CHARS ==
    << "$", "@", "B", "%", "8", "&", "W", "M", "#", "*",
       "o", "a", "h", "k", "b", "d", "p", "q", "w", "m",
       "Z", "O", "0", "Q", "L", "C", "J", "U", "Y", "X",
       "z", "c", "v", "u", "n", "x", "r", "j", "f", "t",
       "/", "\\", "|", "(", ")", "1", "{", "}", "[", "]",
       "?", "-", "_", "+", "~", "<", ">", "i", "!", "l",
       "I", ";", ":", ",", "\"", "^", Backtick, "'", ".", " " >>

Reverse(s) == [i \in 1..Len(s) |-> s[Len(s) + 1 - i]]

(***************************************************************************)
(* Rasters.  A raster is [width, height, pat]; pat names its pixels.       *)
(***************************************************************************)
Patterns == {"gray", "checker", "clear"}
Solid(pat) == pat \in {"gray", "clear"}

PatPixel(pat, px, py) ==
    CASE pat = "gray"    -> [r |-> 128, g |-> 128, b |-> 128, a |-> 255]
      [] pat = "clear"   -> [r |-> 0, g |-> 0, b |-> 0, a |-> 0]
      [] pat = "checker" -> IF (px + py) % 2 = 0
                            THEN [r |-> 0, g |-> 0, b |-> 0, a |-> 255]
                            ELSE [r |-> 255, g |-> 255, b |-> 255, a |-> 255]

\* ImageProcessorService.getPixelData: data[(y * width + x) * 4 ..]; a read past
\* the end of the Uint8ClampedArray is undefined.
getPixelData(img, px, py, w) ==
    LET i == py * w + px
    IN  IF i >= 0 /\ i < img.width * img.height
        THEN PatPixel(img.pat, i % img.width, i \div img.width)
        ELSE [r |-> Undefined, g |-> Undefined, b |-> Undefined, a |-> Undefined]

(***************************************************************************)
(* ASCIICharacterService                                                   *)
(***************************************************************************)
getCharacterSet(inverted) == IF inverted THEN Reverse(ASCII_CHARS) ELSE ASCII_CHARS

\* (0.299 r + 0.587 g + 0.114 b) / 255, in per-mille
rgbToBrightness(r, g, b) ==
    IF Undefined \in {r, g, b} THEN NaN
    ELSE (299 * r + 587 * g + 114 * b) \div 255

\* GammaThreshold[i + 1] is the least per-mille brightness b with
\* floor(pow(b, 0.8) * 69) >= i.
GammaThreshold ==
    << 0, 6, 12, 20, 29, 38, 48, 58, 68, 79, 90, 101, 113, 125, 137, 149, 161,
       174, 187, 200, 213, 227, 240, 254, 268, 282, 296, 310, 324, 339, 354,
       368, 383, 398, 413, 429, 444, 459, 475, 491, 506, 522, 538, 554, 570,
       587, 603, 619, 636, 652, 669, 686, 703, 720, 737, 754, 771, 788, 805,
       823, 840, 858, 875, 893, 911, 929, 946, 964, 982, 1000 >>
\* the least per-mille brightness whose pow(b, 0.8) exceeds 0.95
GammaCap == 938
\* the brightness above which the 0.95 cap applies
VisibleAbove == 100

\* floor(pow(b, 0.8) * (Len(ASCII_CHARS) - 1))
GammaIndex(b) ==
    LET S == {i \in 1..Len(GammaThreshold) : GammaThreshold[i] <= b}
    IN  (CHOOSE i \in S : \A j \in S : j <= i) - 1

\* the 0.95 cap left out
brightnessToChar_NoCap(brightness, inverted) ==
    IF brightness = NaN THEN UndefinedChar
    ELSE getCharacterSet(inverted)[GammaIndex(brightness) + 1]

brightnessToChar(brightness, inverted) ==
    LET chars == getCharacterSet(inverted)
    IN  IF brightness = NaN THEN UndefinedChar      \* chars[NaN]
        ELSE LET charIndex ==
                   IF brightness > VisibleAbove /\ brightness >= GammaCap
                   THEN (95 * (Len(chars) - 1)) \div 100
                   ELSE GammaIndex(brightness)
             IN  chars[charIndex + 1]

\* this.edgeChars
edgeChars ==
    [high    |-> <<"#", "@", "$", "%", "&", "M", "W", "B", "8", "*", "N", "H">>,
     medium  |-> <<"o", "a", "h", "k", "b", "d", "p", "q", "w", "m", "Z", "O">>,
     low     |-> <<"0", "Q", "L", "C", "J", "U", "Y", "X", "z", "c", "v", "u">>,
     minimal |-> <<"n", "x", "r", "j", "f", "t", "/", "\\", "|", "(", ")">>,
     sparse  |-> <<"1", "{", "}", "[", "]", "?", "-", "_", "+", "~", "<", ">">>,
     light   |-> <<"i", "!", "l", "I", ";", ":", ",", "\"", "^", Backtick, "'", ".">>]

\* the least per-mille brightness b with floor(pow(b, 0.8) * 11) >= i, and
\* with floor(pow(b, 0.8) * 10) >= i
GammaThreshold12 == <<0, 50, 119, 198, 283, 374, 469, 569, 672, 779, 888, 1000>>
GammaThreshold11 == <<0, 57, 134, 223, 319, 421, 529, 641, 757, 877, 1000>>

\* floor(pow(b, 0.8) * (Len(charSet) - 1))
EdgeGammaIndex(charSet, b) ==
    LET th == IF Len(charSet) = 12 THEN GammaThreshold12 ELSE GammaThreshold11
        S == {i \in 1..Len(th) : th[i] <= b}
    IN  (CHOOSE i \in S : \A j \in S : j <= i) - 1

\* the tier of selectEdgeAwareCharacter's if-chain (per-mille edge intensity
\* and brightness)
EdgeTier(brightness, edgeIntensity) ==
    IF edgeIntensity > 700 THEN "high"
    ELSE IF edgeIntensity > 500 THEN "medium"
    ELSE IF edgeIntensity > 300 THEN "low"
    ELSE IF edgeIntensity > 100 THEN "minimal"
    ELSE IF brightness > 50 THEN "sparse"
    ELSE "light"

selectEdgeAwareCharacter(brightness, edgeIntensity, inverted) ==
    LET tier == edgeChars[EdgeTier(brightness, edgeIntensity)]
        charSet == IF inverted THEN Reverse(tier) ELSE tier
        charIndex ==
            IF brightness > VisibleAbove /\ brightness >= GammaCap
            THEN (95 * (Len(charSet) - 1)) \div 100
            ELSE EdgeGammaIndex(charSet, brightness)
    IN  charSet[charIndex + 1]

(***************************************************************************)
(* ImageProcessorService                                                   *)
(***************************************************************************)
FloorDiv(a, b) == IF b > 0 THEN a \div b ELSE (0 - a) \div (0 - b)

\* factor = (259 (contrast 255 + 255)) / (255 (259 - contrast 255)), the value
\* and the result in per-mille, the contrast in tenths
applyContrast(value, contrast) ==
    IF value = NaN THEN NaN
    ELSE LET adjusted == FloorDiv(259 * (contrast + 10) * (value - 500),
                                  2590 - 255 * contrast) + 500
         IN  Max(0, Min(1000, adjusted))

\* multiSampleCharacterCell: cellWidth = originalImage.width / charWidth,
\* sampleSize = max(cellWidth, cellHeight) * sampleGrid, and the two loops step
\* by floor(sampleSize / sampleGrid) = max(ow div cw, oh div ch).
SampleStep(orig, cw, ch) == Max(orig.width \div cw, orig.height \div ch)
\* floor(sampleSize) = 0: getImageData(0, 0, sampleSize, sampleSize) throws
SampleThrows(orig, cw, ch) ==
    /\ MULTI_SAMPLE_GRID * orig.width < cw
    /\ MULTI_SAMPLE_GRID * orig.height < ch
\* the loops' increment is 0 while 0 < sampleSize: sx never advances
SampleSpins(orig, cw, ch) ==
    /\ ~SampleThrows(orig, cw, ch)
    /\ SampleStep(orig, cw, ch) = 0
\* sampleSize is a whole number (the cells modelled below)
IntegralCells(orig, cw, ch) ==
    \/ /\ orig.width * ch >= orig.height * cw
       /\ (MULTI_SAMPLE_GRID * orig.width) % cw = 0
    \/ /\ orig.height * cw >= orig.width * ch
       /\ (MULTI_SAMPLE_GRID * orig.height) % ch = 0

\* The sub-samples visited: sx, sy = 0, step, 2 step, ... below sampleSize.
SubSamples(orig, cw, ch) ==
    LET step == SampleStep(orig, cw, ch)
        Below(s) == \/ s * cw < MULTI_SAMPLE_GRID * orig.width
                    \/ s * ch < MULTI_SAMPLE_GRID * orig.height
        Axis == {s \in 0..(MULTI_SAMPLE_GRID * Max(orig.width, orig.height)) :
                    s % step = 0 /\ Below(s)}
    IN  Axis \X Axis

\* For a raster of one colour the scaled cell holds that colour in every
\* sub-sample and the Sobel magnitude is 0.
multiSampleCharacterCell(orig, cx, cy, cw, ch) ==
    LET pixel == PatPixel(orig.pat, 0, 0)
        visited == SubSamples(orig, cw, ch)
        samples == IF pixel.a > 50 THEN Cardinality(visited) ELSE 0
        transparentPixels == Cardinality(visited) - samples
        totalPixels == MULTI_SAMPLE_GRID * MULTI_SAMPLE_GRID
    IN  IF samples = 0
        THEN [r |-> 0, g |-> 0, b |-> 0, a |-> 0,
              edgeIntensity |-> 0, isTransparent |-> TRUE]
        ELSE [r |-> pixel.r, g |-> pixel.g, b |-> pixel.b, a |-> pixel.a,
              edgeIntensity |-> 0,
              isTransparent |-> 10 * transparentPixels > 7 * totalPixels]

(***************************************************************************)
(* ASCIIGeneratorService                                                   *)
(***************************************************************************)
UsesMultiSample == originalImage # NoImage /\ settings.edgeEnhanced

\* the sampling shared by generateMonochromeLineEnhanced and
\* generateColoredLineEnhanced
CellPixelData(cx, cy) ==
    IF UsesMultiSample
    THEN multiSampleCharacterCell(originalImage, cx, cy, width, height)
    ELSE LET pixel == getPixelData(imageData, cx, cy, width)
         IN  [r |-> pixel.r, g |-> pixel.g, b |-> pixel.b, a |-> pixel.a,
              edgeIntensity |-> 0,
              isTransparent |-> (pixel.a # Undefined /\ pixel.a < 50)]

CellBrightness(pd) ==
    applyContrast(rgbToBrightness(pd.r, pd.g, pd.b), settings.contrast)

\* generateMonochromeLineEnhanced's char for one cell (edgeIntensity is 0 for
\* every cell modelled, so selectEdgeAwareCharacter is not entered)
MonoChar(cx, cy) ==
    brightnessToChar(CellBrightness(CellPixelData(cx, cy)), settings.inverted)

\* generateColoredLineEnhanced's lineData entry for one cell
ColoredCell(cx, cy) ==
    LET pd == CellPixelData(cx, cy)
    IN  [char |-> IF pd.isTransparent THEN " "
                  ELSE brightnessToChar(CellBrightness(pd), settings.inverted),
         isTransparent |-> pd.isTransparent,
         edgeIntensity |-> pd.edgeIntensity]

\* what `text += char` appends
CharText(c) ==
    IF c = UndefinedChar THEN <<"u", "n", "d", "e", "f", "i", "n", "e", "d">> ELSE <<c>>

RECURSIVE Concat(_)
Concat(ss) == IF ss = <<>> THEN <<>> ELSE Head(ss) \o Concat(Tail(ss))

\* the column loop stopping one cell early
generateColoredLineEnhanced_Short(row) ==
    [cx \in 1..(width - 1) |-> ColoredCell(cx - 1, row)]
generateColoredLineEnhanced(row) == [cx \in 1..width |-> ColoredCell(cx - 1, row)]
generateMonochromeLineEnhanced(row) ==
    Concat([cx \in 1..width |-> CharText(MonoChar(cx - 1, row))])

\* lineData.map(charData => charData.char).join('')
LineText(lineData) == Concat([i \in 1..Len(lineData) |-> CharText(lineData[i].char)])

chunkSize == Max(1, chunkCfg)

\* the validation testing the width alone
InvalidDimensions_WidthOnly == width <= 0
\* `if (width <= 0 || height <= 0) throw`
InvalidDimensions == width <= 0 \/ height <= 0

\* the text of rows first..last, each but the grid's last followed by "\n"
RowsText(first, last) ==
    Concat([k \in 1..(last - first + 1) |->
        LET row == first + k - 1
            line == IF mode = "colored"
                    THEN LineText(generateColoredLineEnhanced(row))
                    ELSE generateMonochromeLineEnhanced(row)
        IN  line \o (IF row < height - 1 THEN <<"\n">> ELSE <<>>)])

\* after a chunk (and its yield): break when all rows are done, else y += chunkSize
\* and the loop condition y < height
AfterChunk(done) ==
    IF done >= height \/ y + chunkSize >= height
    THEN gpc' = "Complete" /\ y' = y
    ELSE gpc' = "Sampling" /\ y' = y + chunkSize

GenCall ==
    /\ gpc = "Idle"
    /\ IF InvalidDimensions
       THEN gpc' = "Failed" /\ genError' = "Invalid ASCII dimensions"
       ELSE gpc' = "Sampling" /\ genError' = genError
    /\ UNCHANGED <<mode, width, height, imageData, originalImage, settings,
                   loadingService, chunkCfg, y, totalProcessed, coloredData,
                   asciiText, progressLog, yields, rowsSinceYield, sampled>>
    /\ UNCHANGED <<gifVars, decVars, auxVars>>

\* one pass of the chunk loop's body, up to its await
ProcessChunk ==
    /\ gpc = "Sampling"
    /\ UsesMultiSample =>
          /\ ~SampleThrows(originalImage, width, height)
          /\ ~SampleSpins(originalImage, width, height)
    /\ LET endY == Min(y + chunkSize, height)
           n == endY - y
       IN  /\ coloredData' =
                 IF mode = "colored"
                 THEN coloredData \o [k \in 1..n |-> generateColoredLineEnhanced(y + k - 1)]
                 ELSE coloredData
           /\ asciiText' = asciiText \o RowsText(y, endY - 1)
           /\ totalProcessed' = totalProcessed + n
           /\ rowsSinceYield' = rowsSinceYield + n
           /\ sampled' = sampled + n * width
           /\ IF loadingService # NoService
              THEN /\ progressLog' = Append(progressLog, totalProcessed + n)
                   /\ yields' = yields + 1
                   /\ gpc' = "Yielding"
                   /\ y' = y
              ELSE /\ UNCHANGED <<progressLog, yields>>
                   /\ AfterChunk(totalProcessed + n)
    /\ UNCHANGED <<mode, width, height, imageData, originalImage, settings,
                   loadingService, chunkCfg, genError>>
    /\ UNCHANGED <<gifVars, decVars, auxVars>>

\* the first cell's getImageData throws out of multiSampleCharacterCell
SampleFails ==
    /\ gpc = "Sampling"
    /\ UsesMultiSample
    /\ SampleThrows(originalImage, width, height)
    /\ gpc' = "Failed"
    /\ genError' = "IndexSizeError"
    /\ UNCHANGED <<mode, width, height, imageData, originalImage, settings,
                   loadingService, chunkCfg, y, totalProcessed, coloredData,
                   asciiText, progressLog, yields, rowsSinceYield, sampled>>
    /\ UNCHANGED <<gifVars, decVars, auxVars>>

\* one pass of multiSampleCharacterCell's inner loop with sx += 0
SampleSpin ==
    /\ gpc = "Sampling"
    /\ UsesMultiSample
    /\ SampleSpins(originalImage, width, height)
    /\ UNCHANGED vars

\* the timer behind loadingService.yield() fires and the call resumes
Resume ==
    /\ gpc = "Yielding"
    /\ rowsSinceYield' = 0
    /\ AfterChunk(totalProcessed)
    /\ UNCHANGED <<mode, width, height, imageData, originalImage, settings,
                   loadingService, chunkCfg, totalProcessed, coloredData,
                   asciiText, genError, progressLog, yields, sampled>>
    /\ UNCHANGED <<gifVars, decVars, auxVars>>

GenIdle ==
    /\ gpc = "Idle"
    /\ mode = "mono" /\ width = 1 /\ height = 1
    /\ imageData = [width |-> 1, height |-> 1, pat |-> "gray"]
    /\ originalImage = NoImage
    /\ settings = [inverted |-> FALSE, contrast |-> 10, edgeEnhanced |-> FALSE]
    /\ loadingService = NoService /\ chunkCfg = CHUNK_SIZE
    /\ y = 0 /\ totalProcessed = 0 /\ coloredData = <<>> /\ asciiText = <<>>
    /\ genError = NoError /\ progressLog = <<>> /\ yields = 0
    /\ rowsSinceYield = 0 /\ sampled = 0

GifIdle ==
    /\ ppc = "idle" /\ gif = <<>> /\ frameInfos = <<>> /\ frameIndex = 0
    /\ composite = <<>>
    /\ frames = <<>> /\ parseResult = NoResult /\ parseError = NoError

DecIdle ==
    /\ dpc = "idle" /\ data = <<>> /\ pos = 0 /\ frameDelay = 0 /\ dframes = <<>>
    /\ headerParsed = FALSE /\ blocksSeen = 0
    /\ decodeResult = NoResult /\ decodeError = NoError
    /\ gceOf = <<>>

PairIdle == suspended = NoCall
\* CONFIG.DEFAULT_SETTINGS
DEFAULT_SETTINGS == [resolution |-> 100, fontSize |-> 8, contrast |-> 10]
UiIdle == stateSettings = DEFAULT_SETTINGS
NoArgs == [fn |-> "none"]
NotDone == [done |-> FALSE]
Returned(v) == [done |-> TRUE, value |-> v]
FnIdle == fnArgs = NoArgs /\ fnResult = NotDone
NoCell == [x |-> 0 - 1, y |-> 0 - 1, error |-> [r |-> 0, g |-> 0, b |-> 0]]
DitherIdle ==
    /\ errorMatrix = <<>> /\ prevMatrix = <<>> /\ ditherCursor = 0
    /\ residualSum = [r |-> 0, g |-> 0, b |-> 0] /\ lastQuantized = NoCell
\* the application before anything is loaded: the constructor's state
Null == "null"
NoPicture == [id |-> 0, kind |-> Null]
NoUpload == [pc |-> "none"]
NoFire == [index |-> 0, frames |-> 1]
InitialState ==
    [currentImage |-> NoPicture, asciiText |-> "", coloredData |-> Null,
     settings |-> [colored |-> FALSE, inverted |-> FALSE, contrast |-> 10],
     isGIF |-> FALSE, gifFrames |-> <<>>, isGenerating |-> FALSE,
     previewAnimationId |-> 0]
AppIdle ==
    /\ state = InitialState
    /\ ui = [generateButtonEnabled |-> FALSE, isLoading |-> FALSE]
    /\ gens = {} /\ timers = {} /\ upload = NoUpload /\ uploads = 0
    /\ hist = [failed |-> FALSE, toggledWithArt |-> FALSE,
               lastFire |-> NoFire]
AuxIdle == PairIdle /\ UiIdle /\ FnIdle /\ DitherIdle /\ AppIdle

Widths  == 0..MaxWidth
\* the small grids, and one of three chunks at the configured chunk size
Heights == (-1..MaxHeight) \cup {2 * CHUNK_SIZE + 1}
ChunkSizes == {0, 2, CHUNK_SIZE}
\* the rasters handed to a call: one of the grid's size (generateSingleFrameASCII)
\* or a GIF frame's own, smaller, imageData (generateGIFASCII)
ImageSizes(w, h) == {<<Max(w, 1), Max(h, 1)>>, <<1, 1>>}
OriginalSizes == {1, 12}

GenInit ==
    /\ gpc = "Idle"
    /\ mode \in {"mono", "colored"}
    /\ width \in Widths
    /\ height \in Heights
    /\ \E s \in ImageSizes(width, height), p \in Patterns :
          imageData = [width |-> s[1], height |-> s[2], pat |-> p]
    /\ settings \in [inverted : BOOLEAN, contrast : {10}, edgeEnhanced : BOOLEAN]
    /\ \/ originalImage = NoImage
       \/ /\ Solid(imageData.pat)
          /\ \E s \in OriginalSizes :
                /\ originalImage = [width |-> s, height |-> s, pat |-> imageData.pat]
                /\ (settings.edgeEnhanced /\ width > 0 /\ height > 0) =>
                      \/ SampleStep(originalImage, width, height) = 0
                      \/ IntegralCells(originalImage, width, height)
    /\ loadingService \in {NoService, "attached"}
    /\ chunkCfg \in ChunkSizes
    /\ y = 0 /\ totalProcessed = 0 /\ coloredData = <<>> /\ asciiText = <<>>
    /\ genError = NoError /\ progressLog = <<>> /\ yields = 0
    /\ rowsSinceYield = 0 /\ sampled = 0
    /\ GifIdle /\ DecIdle /\ AuxIdle

GenNext ==
    \/ GenCall
    \/ ProcessChunk
    \/ SampleFails
    \/ SampleSpin
    \/ Resume

SpecGen == GenInit /\ [][GenNext]_vars

(***************************************************************************)
(* Two generation calls on one ASCIIGeneratorService.  One call runs at a  *)
(* time; the other waits at its await (or has not started, or is done)     *)
(* with its parameters and locals held in `suspended`.  The service's own  *)
(* fields (loadingService and its progress, CONFIG) belong to both.        *)
(***************************************************************************)
\* the running call's parameters and `const`/`let` locals
CallLocals ==
    [gpc |-> gpc, mode |-> mode, width |-> width, height |-> height,
     imageData |-> imageData, originalImage |-> originalImage,
     settings |-> settings, y |-> y, totalProcessed |-> totalProcessed,
     coloredData |-> coloredData, asciiText |-> asciiText, genError |-> genError]

\* the processed-row counter kept on the service instead of in the call
Closure_SharedCounter(c) == [c EXCEPT !.totalProcessed = totalProcessed]
\* what a call finds when it runs again: its own locals, as it left them
Closure(c) == c

\* the event loop runs the other call: the running one is at its await, not
\* started or finished
Switch ==
    /\ suspended # NoCall
    /\ gpc \in {"Idle", "Yielding", "Complete", "Failed"}
    /\ suspended' = CallLocals
    /\ LET c == Closure(suspended)
       IN  /\ gpc' = c.gpc /\ mode' = c.mode
           /\ width' = c.width /\ height' = c.height
           /\ imageData' = c.imageData /\ originalImage' = c.originalImage
           /\ settings' = c.settings /\ y' = c.y
           /\ totalProcessed' = c.totalProcessed
           /\ coloredData' = c.coloredData /\ asciiText' = c.asciiText
           /\ genError' = c.genError
    /\ UNCHANGED <<loadingService, chunkCfg, progressLog, yields, rowsSinceYield,
                   sampled>>
    /\ UNCHANGED <<gifVars, decVars, uiVars, fnVars, ditherVars, appVars>>

PairWidths == {1, 2}
PairHeights == 1..MaxHeight
PairCalls ==
    {[gpc |-> "Idle", mode |-> m, width |-> w, height |-> h,
      imageData |-> [width |-> w, height |-> h, pat |-> p],
      originalImage |-> NoImage,
      settings |-> [inverted |-> FALSE, contrast |-> 10, edgeEnhanced |-> FALSE],
      y |-> 0, totalProcessed |-> 0, coloredData |-> <<>>, asciiText |-> <<>>,
      genError |-> NoError] :
        m \in {"mono", "colored"}, w \in PairWidths, h \in PairHeights,
        p \in {"gray", "checker"}}

PairInit ==
    /\ suspended \in PairCalls
    /\ \E c \in PairCalls :
          /\ gpc = c.gpc /\ mode = c.mode /\ width = c.width /\ height = c.height
          /\ imageData = c.imageData /\ originalImage = c.originalImage
          /\ settings = c.settings /\ y = c.y
          /\ totalProcessed = c.totalProcessed
          /\ coloredData = c.coloredData /\ asciiText = c.asciiText
          /\ genError = c.genError
    /\ loadingService \in {NoService, "attached"}
    /\ chunkCfg \in {0, 2}
    /\ progressLog = <<>> /\ yields = 0 /\ rowsSinceYield = 0 /\ sampled = 0
    /\ GifIdle /\ DecIdle /\ UiIdle /\ FnIdle /\ DitherIdle /\ AppIdle

PairNext ==
    \/ GenCall
    \/ ProcessChunk
    \/ Resume
    \/ Switch

SpecPair == PairInit /\ [][PairNext]_vars

(***************************************************************************)
(* The settings-change handlers of ASCIIDigitizer.  A slider event carries *)
(* a number; contrast is kept in tenths.                                   *)
(***************************************************************************)
RESOLUTION_MIN == 50
RESOLUTION_MAX == 200
FONT_SIZE_MIN == 4
FONT_SIZE_MAX == 16
\* CONFIG.CONTRAST.MIN and MAX, in tenths
CONTRAST_MIN == 5
CONTRAST_MAX == 20

\* event.target.value: in range, on the bounds, and one step outside them
ResolutionInputs == {RESOLUTION_MIN - 1, RESOLUTION_MIN, 120, RESOLUTION_MAX,
                     RESOLUTION_MAX + 1}
FontSizeInputs == {FONT_SIZE_MIN - 1, FONT_SIZE_MIN, 10, FONT_SIZE_MAX,
                   FONT_SIZE_MAX + 1}
ContrastInputs == {CONTRAST_MIN - 1, CONTRAST_MIN, 15, CONTRAST_MAX,
                   CONTRAST_MAX + 1}

\* this.state.settings.resolution = parseInt(event.target.value)
handleResolutionChange ==
    /\ \E v \in ResolutionInputs :
          stateSettings' = [stateSettings EXCEPT !.resolution = v]
    /\ UNCHANGED <<genVars, gifVars, decVars, pairVars, fnVars, ditherVars,
                   appVars>>

\* this.state.settings.fontSize = parseInt(event.target.value)
handleFontSizeChange ==
    /\ \E v \in FontSizeInputs :
          stateSettings' = [stateSettings EXCEPT !.fontSize = v]
    /\ UNCHANGED <<genVars, gifVars, decVars, pairVars, fnVars, ditherVars,
                   appVars>>

\* this.state.settings.contrast = parseFloat(event.target.value)
handleContrastChange ==
    /\ \E v \in ContrastInputs :
          stateSettings' = [stateSettings EXCEPT !.contrast = v]
    /\ UNCHANGED <<genVars, gifVars, decVars, pairVars, fnVars, ditherVars,
                   appVars>>

UiInit ==
    /\ stateSettings = DEFAULT_SETTINGS
    /\ GenIdle /\ GifIdle /\ DecIdle /\ PairIdle /\ FnIdle /\ DitherIdle
    /\ AppIdle

UiNext ==
    \/ handleResolutionChange
    \/ handleFontSizeChange
    \/ handleContrastChange

SpecUi == UiInit /\ [][UiNext]_vars

(***************************************************************************)
(* multiSampleCharacterCell's transparency decision over a cell whose      *)
(* sub-samples differ in alpha.  The cell is given by the sample grid,     *)
(* sampleSize = max(cellWidth, cellHeight) * sampleGrid (a whole number)   *)
(* and the visited sub-samples whose alpha is not above 50.                *)
(***************************************************************************)
MaxSampleSize == 3
SampleGrids == {2, 3}

\* sx, sy = 0, step, 2 step, ... < sampleSize, step = floor(sampleSize / sampleGrid)
VisitedAxis(sampleGrid, sampleSize) ==
    {v \in 0..(sampleSize - 1) : v % (sampleSize \div sampleGrid) = 0}
Visited(sampleGrid, sampleSize) ==
    VisitedAxis(sampleGrid, sampleSize) \X VisitedAxis(sampleGrid, sampleSize)

\* `samples === 0` returns isTransparent: true; else
\* transparentPixels / totalPixels > 0.7 with totalPixels = sampleGrid * sampleGrid
CellIsTransparent(sampleGrid, sampleSize, clear) ==
    LET transparentPixels == Cardinality(clear)
        samples == Cardinality(Visited(sampleGrid, sampleSize)) - transparentPixels
        totalPixels == sampleGrid * sampleGrid
    IN  IF samples = 0 THEN TRUE
        ELSE 10 * transparentPixels > 7 * totalPixels

\* the cells sampled: a grid, a sampleSize of at most 3 x 3 visited
\* sub-samples, and the visited sub-samples that are below the alpha threshold
SampleShapes ==
    {sh \in SampleGrids \X (2..MaxSampleSize) :
        /\ sh[2] >= sh[1]
        /\ Cardinality(VisitedAxis(sh[1], sh[2])) <= 3}
SampleCells ==
    UNION {{[fn |-> "multiSampleCharacterCell", sampleGrid |-> sh[1],
             sampleSize |-> sh[2], clear |-> c] :
               c \in SUBSET Visited(sh[1], sh[2])} : sh \in SampleShapes}

SampleCell ==
    /\ fnArgs.fn = "multiSampleCharacterCell"
    /\ ~fnResult.done
    /\ fnResult' = Returned(CellIsTransparent(fnArgs.sampleGrid, fnArgs.sampleSize,
                                              fnArgs.clear))
    /\ UNCHANGED <<fnArgs, genVars, gifVars, decVars, pairVars, uiVars,
                   ditherVars, appVars>>

SampleInit ==
    /\ fnArgs \in SampleCells
    /\ fnResult = NotDone
    /\ GenIdle /\ GifIdle /\ DecIdle /\ PairIdle /\ UiIdle /\ DitherIdle
    /\ AppIdle

SampleNext == SampleCell

SpecSample == SampleInit /\ [][SampleNext]_vars

(***************************************************************************)
(* One call of brightnessToChar or selectEdgeAwareCharacter, brightness    *)
(* and edge intensity in per-mille.                                        *)
(***************************************************************************)
BrightnessLevels == 0..1000
\* the tier thresholds, their neighbours and the ends of the range
EdgeLevels == {0, 50, 99, 100, 101, 299, 300, 301, 499, 500, 501, 699, 700, 701,
               850, 1000}
EdgeBrightness == {b \in BrightnessLevels : b % 25 = 0} \cup {51, 101, 937, 938}

CharCalls ==
    {[fn |-> "brightnessToChar", brightness |-> b, inverted |-> i] :
        b \in BrightnessLevels, i \in BOOLEAN}
    \cup {[fn |-> "selectEdgeAwareCharacter", brightness |-> b,
           edgeIntensity |-> e, inverted |-> i] :
             b \in EdgeBrightness, e \in EdgeLevels, i \in BOOLEAN}

CallBrightnessToChar ==
    /\ fnArgs.fn = "brightnessToChar"
    /\ ~fnResult.done
    /\ fnResult' = Returned(brightnessToChar(fnArgs.brightness, fnArgs.inverted))
    /\ UNCHANGED <<fnArgs, genVars, gifVars, decVars, pairVars, uiVars,
                   ditherVars, appVars>>

CallSelectEdgeAwareCharacter ==
    /\ fnArgs.fn = "selectEdgeAwareCharacter"
    /\ ~fnResult.done
    /\ fnResult' = Returned(selectEdgeAwareCharacter(fnArgs.brightness,
                                fnArgs.edgeIntensity, fnArgs.inverted))
    /\ UNCHANGED <<fnArgs, genVars, gifVars, decVars, pairVars, uiVars,
                   ditherVars, appVars>>

CharInit ==
    /\ fnArgs \in CharCalls
    /\ fnResult = NotDone
    /\ GenIdle /\ GifIdle /\ DecIdle /\ PairIdle /\ UiIdle /\ DitherIdle
    /\ AppIdle

CharNext ==
    \/ CallBrightnessToChar
    \/ CallSelectEdgeAwareCharacter

SpecChar == CharInit /\ [][CharNext]_vars

(***************************************************************************)
(* quantizeColorWithDithering over a grid in raster order.  The residual   *)
(* of a cell (dithered colour minus palette colour) is any of Residuals;   *)
(* the error field is kept in 64ths, the unit of weight * INTENSITY.       *)
(***************************************************************************)
MaxDither == 2
\* CONFIG.ASCII_QUALITY.DITHERING.ERROR_DIFFUSION_MATRIX, in 16ths
ERROR_DIFFUSION_MATRIX == << <<0, 0, 7>>, <<3, 5, 1>> >>
\* CONFIG.ASCII_QUALITY.DITHERING.INTENSITY, in quarters
INTENSITY == 3

Residuals ==
    {[r |-> 16, g |-> 0 - 8, b |-> 0], [r |-> 0 - 32, g |-> 0, b |-> 4],
     [r |-> 0, g |-> 24, b |-> 0 - 12]}

\* the cells distributeError can write for a grid of MaxDither x MaxDither
FieldCells == (0..(MaxDither + 1)) \X (0..MaxDither)

\* ERROR_DIFFUSION_MATRIX[dy][dx] * INTENSITY in 64ths, 0 outside the matrix
Factor(dx, dy) ==
    IF dy \in 0..(Len(ERROR_DIFFUSION_MATRIX) - 1)
       /\ dx \in 0..(Len(ERROR_DIFFUSION_MATRIX[dy + 1]) - 1)
    THEN ERROR_DIFFUSION_MATRIX[dy + 1][dx + 1] * INTENSITY
    ELSE 0

\* the targets beyond the grid's last column dropped
distributeError_Clipped(error, cx, cy, em) ==
    [c \in DOMAIN em |->
        LET factor == IF c[1] < MaxDither THEN Factor(c[1] - cx, c[2] - cy) ELSE 0
        IN  [r |-> em[c].r + error.r * factor,
             g |-> em[c].g + error.g * factor,
             b |-> em[c].b + error.b * factor]]
\* errorMatrix[cy + dy][cx + dx] += error * factor for every factor > 0
distributeError(error, cx, cy, em) ==
    [c \in DOMAIN em |->
        LET factor == Factor(c[1] - cx, c[2] - cy)
        IN  [r |-> em[c].r + error.r * factor,
             g |-> em[c].g + error.g * factor,
             b |-> em[c].b + error.b * factor]]

\* quantizeColorWithDithering on the next cell in raster order
quantizeColorWithDithering ==
    /\ ditherCursor < MaxDither * MaxDither
    /\ LET cx == ditherCursor % MaxDither
           cy == ditherCursor \div MaxDither
       IN  \E error \in Residuals :
              /\ errorMatrix' = distributeError(error, cx, cy, errorMatrix)
              /\ lastQuantized' = [x |-> cx, y |-> cy, error |-> error]
              /\ residualSum' = [r |-> residualSum.r + error.r,
                                 g |-> residualSum.g + error.g,
                                 b |-> residualSum.b + error.b]
    /\ prevMatrix' = errorMatrix
    /\ ditherCursor' = ditherCursor + 1
    /\ UNCHANGED <<genVars, gifVars, decVars, pairVars, uiVars, fnVars,
                   appVars>>

DitherInit ==
    /\ errorMatrix = [c \in FieldCells |-> [r |-> 0, g |-> 0, b |-> 0]]
    /\ prevMatrix = errorMatrix
    /\ ditherCursor = 0
    /\ residualSum = [r |-> 0, g |-> 0, b |-> 0]
    /\ lastQuantized = NoCell
    /\ GenIdle /\ GifIdle /\ DecIdle /\ PairIdle /\ UiIdle /\ FnIdle
    /\ AppIdle

DitherNext == quantizeColorWithDithering

SpecDither == DitherInit /\ [][DitherNext]_vars

(***************************************************************************)
(* Properties of the generator                                             *)
(***************************************************************************)
\* the arguments are those of an accepted call
ValidCall == width > 0 /\ height > 0

\* C1: generateColored with width > 0 and height > 0, any chunk size, with or
\* without a loading service: at every yield coloredData holds exactly
\* totalProcessed rows, and on completion it holds exactly height rows of
\* exactly width cells.
C1_GridShape ==
    (mode = "colored" /\ ValidCall) =>
        /\ gpc = "Yielding" => Len(coloredData) = totalProcessed
        /\ gpc = "Complete" =>
              /\ Len(coloredData) = height
              /\ \A i \in 1..Len(coloredData) : Len(coloredData[i]) = width

C1_Witness ==
    /\ mode = "colored" /\ gpc = "Complete"
    /\ width > 1 /\ height > CHUNK_SIZE /\ yields > 1
    /\ Len(coloredData) = height

\* the text is `height` lines of `width` characters, one "\n" between
\* consecutive lines and none after the last
IsGridText(text, w, h) ==
    /\ Len(text) = h * w + (h - 1)
    /\ \A i \in 1..Len(text) : (text[i] = "\n") <=> (i % (w + 1) = 0)

\* C2: generateMonochrome with width > 0 and height > 0 returns exactly height
\* lines of exactly width characters, one newline between consecutive lines and
\* none after the last, whatever the chunk size.
C2_TextShape ==
    (mode = "mono" /\ ValidCall /\ gpc = "Complete") =>
        IsGridText(asciiText, width, height)

\* C3: a call with width <= 0 or height <= 0 fails with 'Invalid ASCII
\* dimensions' before any pixel is sampled, any row is produced, any progress is
\* reported and any yield is taken: it is Idle, then Failed.
C3_InvalidRejected ==
    (width <= 0 \/ height <= 0) =>
        /\ gpc \in {"Idle", "Failed"}
        /\ gpc = "Failed" => genError = "Invalid ASCII dimensions"
        /\ sampled = 0 /\ totalProcessed = 0
        /\ coloredData = <<>> /\ asciiText = <<>>
        /\ progressLog = <<>> /\ yields = 0

C3_Witness ==
    /\ gpc = "Failed" /\ width > 0 /\ height <= 0
    /\ genError = "Invalid ASCII dimensions"

\* C4: with the configured chunk size, at most CHUNK_SIZE rows are processed
\* between two consecutive yields (or between the start and the first yield)
\* and a progress report follows each chunk, however the service was
\* constructed.
C4_YieldEachChunk ==
    (ValidCall /\ chunkCfg = CHUNK_SIZE) =>
        /\ rowsSinceYield <= CHUNK_SIZE
        /\ totalProcessed > 0 => progressLog # <<>> /\ yields > 0

\* a call inside multiSampleCharacterCell's loops can leave them: their
\* increment floor(sampleSize / sampleGrid) is positive
SamplingAdvances ==
    (gpc = "Sampling" /\ UsesMultiSample) =>
        SampleStep(originalImage, width, height) > 0

\* C5: every call with width > 0 and height > 0 reaches Complete, on the fast
\* path and on the edge-enhanced path, for every positive image and grid size:
\* it never fails and its sampling loops always advance.
C5_ReachesComplete ==
    ValidCall => (gpc # "Failed" /\ SamplingAdvances)


(***************************************************************************)
(* GIFParserService.  The file is what its two readers make of it: whether *)
(* GifReader (omggif) throws, the frames it reports, and whether the       *)
(* browser loads the file as an image.  The canvas is two pixels wide; a   *)
(* pixel is Transparent or holds the colour of the frame that drew it      *)
(* (frame k draws colour k + 1).                                           *)
(***************************************************************************)
Pos == {<<0, 0>>, <<1, 0>>}
Transparent == 0
MIN_FRAME_DELAY == 20
MAX_FRAME_DELAY == 5000
DEFAULT_FRAME_DELAY == 100
\* GCE delays in 1/100 s
GceDelays == {0, 1, 10, 600}
\* the colour of the pixels of the image the browser decodes from the file
StaticColour == MaxFrames + 1

\* reader.frameInfo(i) with the outcome of decodeAndBlitFrameRGBA(i, pixels):
\* the positions the frame draws opaque, or a throw
FrameInfos ==
    [disposal : 0..3, delay : GceDelays, drawn : SUBSET Pos, fails : {FALSE}]
    \cup [disposal : 0..3, delay : {0}, drawn : {{}}, fails : {TRUE}]

\* compositeCtx.clearRect(0, 0, width, height)
clearRect == [p \in Pos |-> Transparent]

\* the disposal method extractFrames acts on before it blits a frame
DisposalApplied_Current(prevInfo, curInfo) == curInfo.disposal
DisposalApplied(prevInfo, curInfo) == prevInfo.disposal

\* `if (prevFrameInfo.disposal === 2) clearRect`; nothing for 0, 1 and 3
DisposePrevious_NoClear(buf, disposal) == buf
DisposePrevious(buf, disposal) == IF disposal = 2 THEN clearRect ELSE buf

\* putImageData on gifCanvas, then compositeCtx.drawImage(gifCanvas, 0, 0):
\* the frame's opaque pixels over the buffer
Blit(buf, drawn, colour) == [p \in Pos |-> IF p \in drawn THEN colour ELSE buf[p]]

\* the clamp without the `|| 10` default
ClampedDelay_NoDefault(delay) ==
    Max(MIN_FRAME_DELAY, Min(delay * 10, MAX_FRAME_DELAY))
\* (frameInfo.delay || 10) * 10, clamped
ClampedDelay(delay) ==
    Max(MIN_FRAME_DELAY, Min((IF delay = 0 THEN 10 ELSE delay) * 10, MAX_FRAME_DELAY))

\* a failed frame throwing the frames obtained so far away
PushFrame_DropPrior(fs, info, raster, idx) ==
    IF info.fails THEN <<>>
    ELSE Append(fs, [imageData |-> raster, delay |-> ClampedDelay(info.delay),
                     index |-> idx])
\* frames.push({...}) at the end of the try block; a throw inside the block is
\* caught and logged, the frame is not pushed
PushFrame(fs, info, raster, idx) ==
    IF info.fails THEN fs
    ELSE Append(fs, [imageData |-> raster, delay |-> ClampedDelay(info.delay),
                     index |-> idx])

\* `new GifReader(uint8Array)` (or reading the file) throws into parseGIF's
\* catch, or extractFrames starts on a transparent buffer
ConstructReader ==
    /\ ppc = "start"
    /\ IF gif.readerThrows
       THEN ppc' = "fallback" /\ composite' = composite
       ELSE ppc' = "extract" /\ composite' = clearRect
    /\ UNCHANGED <<gif, frameInfos, frameIndex, frames, parseResult, parseError>>
    /\ UNCHANGED <<genVars, decVars, auxVars>>

\* one pass of extractFrames' loop, its try/catch included
ExtractFrame ==
    /\ ppc = "extract"
    /\ frameIndex < gif.numFrames
    /\ \E info \in FrameInfos :
          LET disposed ==
                IF frameIndex > 0
                THEN DisposePrevious(composite,
                         DisposalApplied(frameInfos[frameIndex], info))
                ELSE composite
              blitted == Blit(disposed, info.drawn, frameIndex + 1)
          IN  /\ frameInfos' = Append(frameInfos, info)
              /\ composite' = IF info.fails THEN disposed ELSE blitted
              /\ frames' = PushFrame(frames, info, blitted, frameIndex)
    /\ frameIndex' = frameIndex + 1
    /\ UNCHANGED <<ppc, gif, parseResult, parseError>>
    /\ UNCHANGED <<genVars, decVars, auxVars>>

\* extractFrames returns: the document, or the static fallback for no frames
FinishExtract ==
    /\ ppc = "extract"
    /\ frameIndex = gif.numFrames
    /\ IF Len(frames) = 0
       THEN ppc' = "fallback" /\ parseResult' = parseResult
       ELSE /\ ppc' = "done"
            /\ parseResult' = [frames |-> frames, frameCount |-> Len(frames),
                               isAnimated |-> Len(frames) > 1]
    /\ UNCHANGED <<gif, frameInfos, frameIndex, composite, frames, parseError>>
    /\ UNCHANGED <<genVars, decVars, auxVars>>

\* parseAsStaticImage: createFrameFromDataURL resolves on img.onload and
\* rejects with 'Failed to load image' on img.onerror; nothing catches it
parseAsStaticImage ==
    /\ ppc = "fallback"
    /\ IF gif.imgLoads
       THEN /\ ppc' = "done"
            /\ parseResult' =
                  [frames |-> << [imageData |-> [p \in Pos |-> StaticColour],
                                  delay |-> DEFAULT_FRAME_DELAY,
                                  index |-> 0] >>,
                   frameCount |-> 1, isAnimated |-> FALSE]
            /\ parseError' = parseError
       ELSE /\ ppc' = "rejected"
            /\ parseError' = "Failed to load image"
            /\ parseResult' = parseResult
    /\ UNCHANGED <<gif, frameInfos, frameIndex, composite, frames>>
    /\ UNCHANGED <<genVars, decVars, auxVars>>

GifInit ==
    /\ ppc = "start"
    /\ gif \in [readerThrows : BOOLEAN, numFrames : 0..MaxFrames, imgLoads : BOOLEAN]
    /\ frameInfos = <<>> /\ frameIndex = 0
    /\ composite = clearRect
    /\ frames = <<>> /\ parseResult = NoResult /\ parseError = NoError
    /\ GenIdle /\ DecIdle /\ AuxIdle

GifNext ==
    \/ ConstructReader
    \/ ExtractFrame
    \/ FinishExtract
    \/ parseAsStaticImage

SpecGif == GifInit /\ [][GifNext]_vars

(***************************************************************************)
(* GIFFrameDecoder.decode over a byte stream.  data is the Uint8Array; a   *)
(* read past its end is Undefined, which the bitwise operators take as 0   *)
(* and every comparison takes as false.                                    *)
(***************************************************************************)
MaxBlocks == 3

\* 'G', 'I', 'F' and a byte that is none of them
SigBytes == {71, 73, 70, 88}
GIF == <<71, 73, 70>>

\* data[i]
Byte(d, i) == IF i >= 0 /\ i < Len(d) THEN d[i + 1] ELSE Undefined
\* ToInt32 of a byte read, as `|` and `&` apply it
ToInt32(b) == IF b = Undefined THEN 0 ELSE b
\* data[i] | (data[i + 1] << 8)
U16(d, i) == ToInt32(Byte(d, i)) + 256 * ToInt32(Byte(d, i + 1))

\* String.fromCharCode(...data.slice(0, 3))
Signature(d) == SubSeq(d, 1, Min(3, Len(d)))
\* signature === 'GIF'
SignatureOk_Prefix(d) == \A i \in 1..Len(Signature(d)) : d[i] = GIF[i]
SignatureOk(d) == Signature(d) = GIF

\* the screen descriptor fields decode reads
ScreenWidth(d) == U16(d, 6)
ScreenHeight(d) == U16(d, 8)
\* (data[10] & 0x80) >> 7
globalColorTableFlag(d) == ToInt32(Byte(d, 10)) \div 128
\* 2 << (data[10] & 0x07)
globalColorTableSize(d) == 2 * (2 ^ (ToInt32(Byte(d, 10)) % 8))
\* pos after the header and the global colour table
FirstBlock(d) ==
    13 + (IF globalColorTableFlag(d) = 1 THEN globalColorTableSize(d) * 3 ELSE 0)

\* skipBlock's loop from the block size read at p - 1
RECURSIVE SkipLoop(_, _, _)
SkipLoop(d, p, blockSize) ==
    IF blockSize # Undefined /\ blockSize > 0
    THEN SkipLoop(d, p + blockSize + 1, Byte(d, p + blockSize))
    ELSE p
\* skipBlock without the pos++ that follows the first length read
skipBlock_NoAdvance(d, p) == SkipLoop(d, p - 2, Byte(d, p))
skipBlock(d, p) == SkipLoop(d, p + 1, Byte(d, p))

\* (data[pos + 4] | (data[pos + 5] << 8)) * 10
GceDelayMs(d, p) == U16(d, p + 4) * 10

\* the byte streams decode is given: a header, an optional two-entry global
\* colour table and up to MaxBlocks blocks
Header(w, flags) == <<56, 57, 97, w, 0, 1, 0, flags, 0, 0>>
ColorTable2 == <<0, 0, 0, 255, 255, 255>>
GceBlock(lo, hi) == <<33, 249, 4, 0, lo, hi, 0, 0>>
ImageBlock == <<44, 0, 0, 0, 0, 1, 0, 1, 0, 0, 2, 2, 76, 1, 0>>
\* an image block with one data byte, 0: skipBlock(pos + 10) ends right after it
ImageBlock1 == <<44, 0, 0, 0, 0, 1, 0, 1, 0, 0, 2, 1, 0, 0>>
AppBlock == <<33, 255, 3, 1, 2, 3, 0>>
\* a comment extension with no data sub-block
EmptyComment == <<33, 254, 0>>
Trailer == <<59>>
Junk == <<0>>
BlockKinds ==
    {GceBlock(0, 0), GceBlock(5, 0), GceBlock(0, 1), ImageBlock, ImageBlock1,
     AppBlock, EmptyComment,
     Trailer, Junk}

RECURSIVE BlockSeqs(_)
BlockSeqs(n) ==
    IF n = 0 THEN {<<>>}
    ELSE LET shorter == BlockSeqs(n - 1)
         IN  shorter \cup {bs \o b : bs \in shorter, b \in BlockKinds}

Bodies ==
    {Header(w, 0) \o bs : w \in {0, 1}, bs \in BlockSeqs(MaxBlocks)}
    \cup {Header(w, 128) \o ColorTable2 \o bs :
             w \in {0, 1}, bs \in BlockSeqs(MaxBlocks)}
\* what may follow a signature that is not 'GIF': nothing, part of a header,
\* or a whole well-formed body
ShortBodies ==
    {<<>>, <<56, 57, 97>>, Header(1, 0) \o ImageBlock \o Trailer}
Signatures == UNION {[1..n -> SigBytes] : n \in 0..3}

\* decode up to its block loop: the signature check, the header
DecodeStart ==
    /\ dpc = "start"
    /\ IF ~SignatureOk(data)
       THEN /\ dpc' = "threw"
            /\ decodeError' = "Invalid GIF file"
            /\ UNCHANGED <<pos, frameDelay, headerParsed>>
       ELSE /\ dpc' = "blocks"
            /\ headerParsed' = TRUE
            /\ pos' = FirstBlock(data)
            /\ frameDelay' = 100
            /\ decodeError' = decodeError
    /\ UNCHANGED <<data, dframes, blocksSeen, decodeResult, gceOf>>
    /\ UNCHANGED <<genVars, gifVars, auxVars>>

\* blockType === 0x21
ExtensionBlock ==
    /\ dpc = "blocks" /\ pos < Len(data)
    /\ Byte(data, pos) = 33
    /\ IF Byte(data, pos + 1) = 249
       THEN /\ frameDelay' = GceDelayMs(data, pos) /\ pos' = pos + 8
            /\ gceOf' = [gceOf EXCEPT ![Len(gceOf)] = GceDelayMs(data, pos)]
       ELSE /\ frameDelay' = frameDelay /\ pos' = skipBlock(data, pos + 2)
            /\ gceOf' = gceOf
    /\ blocksSeen' = blocksSeen + 1
    /\ UNCHANGED <<dpc, data, dframes, headerParsed, decodeResult, decodeError>>
    /\ UNCHANGED <<genVars, gifVars, auxVars>>

\* blockType === 0x2C: parseImageBlock (getImageData throws IndexSizeError on
\* a zero-sized screen), frame.delay = frameDelay || 100
ImageBlockStep ==
    /\ dpc = "blocks" /\ pos < Len(data)
    /\ Byte(data, pos) = 44
    /\ IF ScreenWidth(data) = 0 \/ ScreenHeight(data) = 0
       THEN /\ dpc' = "threw"
            /\ decodeError' = "IndexSizeError"
            /\ UNCHANGED <<pos, dframes, gceOf>>
       ELSE /\ dframes' = Append(dframes, IF frameDelay = 0 THEN 100 ELSE frameDelay)
            /\ gceOf' = Append(gceOf, Undefined)
            /\ pos' = skipBlock(data, pos + 10)
            /\ UNCHANGED <<dpc, decodeError>>
    /\ blocksSeen' = blocksSeen + 1
    /\ UNCHANGED <<data, frameDelay, headerParsed, decodeResult>>
    /\ UNCHANGED <<genVars, gifVars, auxVars>>

\* any other block type: pos++
SkipByte ==
    /\ dpc = "blocks" /\ pos < Len(data)
    /\ Byte(data, pos) \notin {33, 44, 59}
    /\ pos' = pos + 1
    /\ blocksSeen' = blocksSeen + 1
    /\ UNCHANGED <<dpc, data, frameDelay, dframes, headerParsed, decodeResult,
                   decodeError, gceOf>>
    /\ UNCHANGED <<genVars, gifVars, auxVars>>

\* the loop ends, by the trailer's break or at the end of data: return
DecodeReturn ==
    /\ dpc = "blocks"
    /\ pos >= Len(data) \/ Byte(data, pos) = 59
    /\ dpc' = "returned"
    /\ decodeResult' = [width |-> ScreenWidth(data), height |-> ScreenHeight(data),
                        frames |-> dframes, frameCount |-> Len(dframes),
                        isAnimated |-> Len(dframes) > 1]
    /\ UNCHANGED <<data, pos, frameDelay, dframes, headerParsed, blocksSeen,
                   decodeError, gceOf>>
    /\ UNCHANGED <<genVars, gifVars, auxVars>>

DecInit ==
    /\ dpc = "start"
    /\ \/ data \in {GIF \o body : body \in Bodies}
       \/ data \in {sig \o body : sig \in Signatures, body \in ShortBodies}
    /\ pos = 0 /\ frameDelay = 0 /\ dframes = <<>>
    /\ headerParsed = FALSE /\ blocksSeen = 0
    /\ decodeResult = NoResult /\ decodeError = NoError
    /\ gceOf = <<Undefined>>
    /\ GenIdle /\ GifIdle /\ AuxIdle

DecNext ==
    \/ DecodeStart
    \/ ExtensionBlock
    \/ ImageBlockStep
    \/ SkipByte
    \/ DecodeReturn

SpecDec == DecInit /\ [][DecNext]_vars

\* decode is one synchronous call: once entered, it runs until it returns or
\* throws, with no await in it
SpecDecRuns == SpecDec /\ WF_vars(DecNext)

(***************************************************************************)
(* Properties of the frame decoder                                         *)
(***************************************************************************)
\* C6: for every byte stream that does not begin with the bytes 'GIF' (the
\* empty and the shorter-than-three-byte streams among them) decode throws
\* 'Invalid GIF file' before it reads the screen descriptor or any block, and
\* never returns a document.
C6_SignatureRejected ==
    (dpc # "idle" /\ (Len(data) < 3 \/ SubSeq(data, 1, 3) # GIF)) =>
        /\ dpc \in {"start", "threw"}
        /\ dpc = "threw" => decodeError = "Invalid GIF file"
        /\ ~headerParsed /\ blocksSeen = 0 /\ pos = 0 /\ dframes = <<>>
        /\ decodeResult = NoResult

C6_Witness ==
    /\ dpc = "threw" /\ decodeError = "Invalid GIF file"
    /\ Len(data) = 2 /\ data = <<71, 73>>

(***************************************************************************)
(* Properties of the GIF parser                                            *)
(***************************************************************************)
\* frame i (0-based) was decoded and pushed
Pushed(i) == \E k \in 1..Len(frames) : frames[k].index = i
FrameOf(i) == CHOOSE k \in 1..Len(frames) : frames[k].index = i
RasterOf(i) == frames[FrameOf(i)].imageData
DrawnBy(i) == frameInfos[i + 1].drawn
DisposalOf(i) == frameInfos[i + 1].disposal

\* C7: parseGIF is never fatal to its caller and never returns a document
\* without frames: when the reader throws or no frame is extracted the result
\* is the static document, frameCount = 1 and isAnimated = false.
C7_NeverFatal ==
    /\ ppc # "rejected"
    /\ ppc = "done" =>
          /\ parseResult.frameCount >= 1
          /\ (gif.readerThrows \/ Len(frames) = 0) =>
                (parseResult.frameCount = 1 /\ ~parseResult.isAnimated)

\* C8: a frame i > 0 whose previous frame has disposal 2 is composited on a
\* cleared buffer: its raster holds its own pixels and is transparent
\* everywhere else.
C8_RestoreBackground ==
    \A i \in 1..(frameIndex - 1) :
        (Pushed(i) /\ DisposalOf(i - 1) = 2) =>
            \A p \in Pos :
                RasterOf(i)[p] = (IF p \in DrawnBy(i) THEN i + 1 ELSE Transparent)

C8_Witness ==
    /\ frameIndex = 2 /\ Pushed(0) /\ Pushed(1)
    /\ DisposalOf(0) = 2
    /\ DrawnBy(0) = {<<0, 0>>} /\ DrawnBy(1) = {<<1, 0>>}
    /\ RasterOf(0)[<<0, 0>>] = 1
    /\ RasterOf(1)[<<0, 0>>] = Transparent

\* the two-frame GIF of C9: frame 1 draws one opaque pixel at (0,0), frame 2
\* does not draw there, both are decoded
TwoFrameGif ==
    /\ ppc = "done" /\ gif.numFrames = 2 /\ Pushed(0) /\ Pushed(1)
    /\ DrawnBy(0) = {<<0, 0>>}
    /\ <<0, 0>> \notin DrawnBy(1)

\* C9 (as stated): when frame 2 has disposal 'restore to background', frame
\* 2's raster shows (0,0) transparent.
C9_Original ==
    (TwoFrameGif /\ DisposalOf(1) = 2) => RasterOf(1)[<<0, 0>>] = Transparent

\* C9 (amended): when frame 1 has disposal 'restore to background', frame 2's
\* raster shows (0,0) transparent, not frame 1's colour.
C9_Amended ==
    (TwoFrameGif /\ DisposalOf(0) = 2) => RasterOf(1)[<<0, 0>>] = Transparent

C9_Witness ==
    /\ TwoFrameGif /\ DisposalOf(0) = 2 /\ DisposalOf(1) # 2
    /\ RasterOf(0)[<<0, 0>>] = 1
    /\ RasterOf(1)[<<0, 0>>] = Transparent

\* C10: a frame i > 0 whose previous frame has disposal 3 is composited on the
\* buffer as it was before frame i-1 was drawn: no pixel of frame i-1's colour
\* is in frame i's raster.
C10_RestorePrevious ==
    \A i \in 1..(frameIndex - 1) :
        (Pushed(i) /\ DisposalOf(i - 1) = 3) =>
            \A p \in Pos : RasterOf(i)[p] # i

\* C11: every frame extractFrames returns has a delay within [20, 5000] ms: 10
\* times its GCE delay clamped to that range, and 100 ms for a GCE delay of 0.
C11_DelayClamped ==
    \A k \in 1..Len(frames) :
        LET gce == frameInfos[frames[k].index + 1].delay
            ms == frames[k].delay
        IN  /\ ms >= 20 /\ ms <= 5000
            /\ gce = 0 => ms = 100
            /\ gce # 0 =>
                  ms = (IF 10 * gce < 20 THEN 20
                        ELSE IF 10 * gce > 5000 THEN 5000 ELSE 10 * gce)

C11_Witness ==
    /\ Len(frames) = 2
    /\ frameInfos[1].delay = 0 /\ frames[1].delay = 100
    /\ frameInfos[2].delay = 600 /\ frames[2].delay = 5000

\* the indices of the frames decoded without a throw, in stream order
RECURSIVE DecodedIndices(_)
DecodedIndices(n) ==
    IF n = 0 THEN <<>>
    ELSE IF frameInfos[n].fails THEN DecodedIndices(n - 1)
         ELSE Append(DecodedIndices(n - 1), n - 1)

\* C12: a frame that fails to decode inside extractFrames raises nothing out
\* of the parser, leaves every frame already pushed as it was, and the frames
\* held (and returned) are exactly the successfully decoded ones in their
\* original order.
C12_PartialDecode ==
    /\ [](/\ Len(frames) = Len(DecodedIndices(frameIndex))
          /\ \A k \in 1..Len(frames) : frames[k].index = DecodedIndices(frameIndex)[k]
          /\ (ppc = "done" /\ frames # <<>>) => parseResult.frames = frames
          /\ frames # <<>> => ppc # "rejected")
    /\ [][ppc = "extract" =>
            /\ Len(frames') >= Len(frames)
            /\ SubSeq(frames', 1, Len(frames)) = frames]_vars

C12_Witness ==
    /\ ppc = "done" /\ Len(frameInfos) = 2
    /\ ~frameInfos[1].fails /\ frameInfos[2].fails
    /\ frameInfos[1].drawn # {}
    /\ parseResult.frameCount = 1 /\ parseResult.frames[1].index = 0

\* C13: two calls on one service, interleaved in any order at their yields:
\* each call that completes holds exactly the text and the grid its inputs
\* alone determine, all of its rows and nothing of the other call's.
C13_CallsIndependent ==
    (suspended # NoCall /\ gpc = "Complete") =>
        /\ totalProcessed = height
        /\ asciiText = RowsText(0, height - 1)
        /\ mode = "colored" =>
              coloredData = [k \in 1..height |-> generateColoredLineEnhanced(k - 1)]

C13_Witness ==
    /\ suspended # NoCall /\ gpc = "Complete" /\ suspended.gpc = "Complete"
    /\ yields >= 4
    /\ mode = "colored" /\ suspended.mode = "mono"
    /\ height = 2 /\ suspended.height = 2 /\ width # suspended.width
    /\ Len(coloredData) = 2 /\ suspended.totalProcessed = 2

\* C14: after any sequence of settings-change handlers the stored settings
\* satisfy resolution in [50, 200], fontSize in [4, 16] and contrast in
\* [0.5, 2.0].
C14_SettingsClamped ==
    /\ stateSettings.resolution >= 50 /\ stateSettings.resolution <= 200
    /\ stateSettings.fontSize >= 4 /\ stateSettings.fontSize <= 16
    /\ stateSettings.contrast >= 5 /\ stateSettings.contrast <= 20

\* C15: multiSampleCharacterCell marks a cell transparent exactly when more
\* than 70% of the sub-samples it visited are below the alpha threshold, for
\* every sample grid and cell footprint.
C15_TransparencyMajority ==
    (fnArgs.fn = "multiSampleCharacterCell" /\ fnResult.done) =>
        (fnResult.value <=>
            10 * Cardinality(fnArgs.clear) >
                7 * Cardinality(Visited(fnArgs.sampleGrid, fnArgs.sampleSize)))

\* C16: for every brightness b in [0, 1], brightnessToChar(b, inverted = true)
\* is the glyph brightnessToChar(1 - b, inverted = false) returns.
C16_InversionReversal ==
    (fnArgs.fn = "brightnessToChar" /\ fnArgs.inverted /\ fnResult.done) =>
        fnResult.value = brightnessToChar(1000 - fnArgs.brightness, FALSE)

\* the glyphs of a sequence
Glyphs(charSet) == {charSet[i] : i \in 1..Len(charSet)}

\* C19: brightnessToChar never returns the space glyph for a brightness above
\* 0.1, inverted or not, and selectEdgeAwareCharacter never returns it for any
\* brightness and edge intensity in [0, 1].
C19_NoSpace ==
    fnResult.done =>
        /\ (fnArgs.fn = "brightnessToChar" /\ fnArgs.brightness > 100) =>
              fnResult.value # " "
        /\ fnArgs.fn = "selectEdgeAwareCharacter" => fnResult.value # " "

C19_Witness ==
    /\ fnResult.done
    /\ fnArgs.fn = "brightnessToChar" /\ fnArgs.brightness = 1000
    /\ ~fnArgs.inverted
    /\ fnResult.value = "^"

\* C20: the sub-ramp is picked by inclusive thresholds: edge intensity >= 0.7
\* the 'high' ramp, >= 0.5 'medium', >= 0.3 'low', >= 0.1 'minimal', and only
\* below 0.1 the brightness-only 'sparse' / 'light' ramps.
C20_InclusiveTiers ==
    (fnArgs.fn = "selectEdgeAwareCharacter" /\ fnResult.done) =>
        LET e == fnArgs.edgeIntensity
            tier == IF e >= 700 THEN {"high"}
                    ELSE IF e >= 500 THEN {"medium"}
                    ELSE IF e >= 300 THEN {"low"}
                    ELSE IF e >= 100 THEN {"minimal"}
                    ELSE {"sparse", "light"}
        IN  \E t \in tier : fnResult.value \in Glyphs(edgeChars[t])

\* the sum of a channel over a set of cells of an error field
RECURSIVE FieldSum(_, _, _)
FieldSum(em, cells, ch) ==
    IF cells = {} THEN 0
    ELSE LET c == CHOOSE c \in cells : TRUE
         IN  em[c][ch] + FieldSum(em, cells \ {c}, ch)

\* what the last step added to cell c, per channel
Added(c, ch) == errorMatrix[c][ch] - prevMatrix[c][ch]

\* the kernel's footprint around (cx, cy): the positions of the positive weights
\* of ERROR_DIFFUSION_MATRIX
Footprint(cx, cy) == {<<cx + 2, cy>>, <<cx, cy + 1>>, <<cx + 1, cy + 1>>, <<cx + 2, cy + 1>>}

C18_KernelTargets ==
    lastQuantized # NoCell =>
        LET cx == lastQuantized.x
            cy == lastQuantized.y
        IN  \A ch \in {"r", "g", "b"} :
              /\ Added(<<cx + 1, cy>>, ch) = 21 * lastQuantized.error[ch]
              /\ FieldSum(errorMatrix, {c \in FieldCells : c[2] = cy + 1}, ch)
                 - FieldSum(prevMatrix, {c \in FieldCells : c[2] = cy + 1}, ch)
                    = 27 * lastQuantized.error[ch]
              /\ \A c \in FieldCells :
                    Added(c, ch) # 0 => (c[2] > cy \/ (c[2] = cy /\ c[1] > cx))

\* the text generateMonochrome builds for the call's raster, grid and settings
MonochromeText ==
    Concat([k \in 1..height |->
        generateMonochromeLineEnhanced(k - 1)
            \o (IF k - 1 < height - 1 THEN <<"\n">> ELSE <<>>)])

\* C21: for the same raster, grid and settings generateColored and
\* generateMonochrome select the same glyph for every cell: the asciiText of a
\* completed generateColored call is the text generateMonochrome returns.
C21_SameGlyphs ==
    (mode = "colored" /\ ValidCall /\ gpc = "Complete") =>
        asciiText = MonochromeText

\* C22: the delay given to an image block's frame is the one carried by the
\* Graphics Control Extension met since the image block before it; a frame
\* without a GCE of its own gets the 100 ms default.
C22_DelayOfOwnGce ==
    \A i \in 1..Len(dframes) :
        dframes[i] = (IF gceOf[i] \in {Undefined, 0} THEN 100 ELSE gceOf[i])

\* C27: decode's block loop terminates on every finite byte stream: the read
\* position strictly increases on every iteration (skipBlock included, also
\* when a sub-block length points past the end of the data), and the call
\* ends by returning or throwing.
C27_LoopTerminates ==
    /\ [][(dpc = "blocks" /\ dpc' = "blocks") => pos' > pos]_vars
    /\ <>(dpc \in {"returned", "threw"})

\* a walk that met a sub-block length pointing past the end, and returned
C27_Witness ==
    /\ dpc = "returned" /\ SignatureOk(data)
    /\ pos > Len(data) /\ blocksSeen >= 2

\* ---- ImageProcessorService.calculateCharacterDimensions
Infinity == 0 - 3
\* the factors minWidth / charWidth, maxWidth / charWidth, ... as fractions
\* n / d; d = 0 is a division by zero (Infinity)
Ratio(n, d) == [n |-> n, d |-> d]
RatioLess(a, b) == a.n * b.d < b.n * a.d
\* Math.min(scaleDownFactor, r) and Math.max(scaleUpFactor, r)
RatioMin(a, r) == IF RatioLess(r, a) THEN r ELSE a
RatioMax(a, r) == IF RatioLess(a, r) THEN r ELSE a
\* the widths c met below whose double product c * (500 / c) is under 500
RoundsLow == {554, 666, 714, 833, 1332, 1666, 2499, 3332}
\* Math.floor(c * finalScaleFactor): 0 * Infinity is NaN
FloorTimes(c, f) ==
    IF f.d = 0 THEN (IF c = 0 THEN NaN ELSE Infinity)
    ELSE IF f.n = 500 /\ f.d = c /\ c \in RoundsLow THEN 499
    ELSE FloorDiv(c * f.n, f.d)
\* Math.max(a, b)
MathMax(a, b) ==
    IF a = NaN \/ b = NaN THEN NaN
    ELSE IF a = Infinity \/ b = Infinity THEN Infinity
    ELSE Max(a, b)

calculateCharacterDimensions(scaledWidth, scaledHeight, fontSize, resolution) ==
    IF scaledWidth <= 0 \/ scaledHeight <= 0
    THEN [charWidth |-> 80, charHeight |-> 60]
    ELSE
    LET \* Math.floor(scaledWidth / (fontSize * 0.6)), Math.floor(scaledHeight / fontSize)
        baseCharacterWidth  == FloorDiv(5 * scaledWidth, 3 * fontSize)
        baseCharacterHeight == FloorDiv(scaledHeight, fontSize)
        \* Math.floor(base * (resolution / 100))
        cw == FloorDiv(baseCharacterWidth * resolution, 100)
        ch == FloorDiv(baseCharacterHeight * resolution, 100)
        down1 == IF cw > 500 THEN RatioMin(Ratio(1, 1), Ratio(500, cw))
                 ELSE Ratio(1, 1)
        scaleDownFactor ==
            IF ch > 300 THEN RatioMin(down1, Ratio(300, ch)) ELSE down1
        up1 == IF cw < 20 THEN RatioMax(Ratio(1, 1), Ratio(20, cw))
               ELSE Ratio(1, 1)
        scaleUpFactor ==
            IF ch < 10 THEN RatioMax(up1, Ratio(10, ch)) ELSE up1
        finalScaleFactor ==
            IF scaleDownFactor.n < scaleDownFactor.d THEN scaleDownFactor
            ELSE scaleUpFactor
        scaled == finalScaleFactor.n # finalScaleFactor.d
        cw2 == IF scaled THEN FloorTimes(cw, finalScaleFactor) ELSE cw
        ch2 == IF scaled THEN FloorTimes(ch, finalScaleFactor) ELSE ch
        small == scaledWidth < 200 \/ scaledHeight < 200
    IN  [charWidth  |-> IF small THEN MathMax(cw2, 60) ELSE cw2,
         charHeight |-> IF small THEN MathMax(ch2, 30) ELSE ch2]

\* image.naturalWidth / naturalHeight, and the settings the sliders can give
NaturalSizes == {1, 10, 199, 200, 640, 2000, 10000}
FontSizes == FONT_SIZE_MIN..FONT_SIZE_MAX
Resolutions == {RESOLUTION_MIN, 100, 150, RESOLUTION_MAX}
DimensionCalls ==
    {[fn |-> "calculateCharacterDimensions", scaledWidth |-> w,
      scaledHeight |-> h, fontSize |-> f, resolution |-> r] :
        w \in NaturalSizes, h \in NaturalSizes, f \in FontSizes,
        r \in Resolutions}

CallCalculateCharacterDimensions ==
    /\ fnArgs.fn = "calculateCharacterDimensions"
    /\ ~fnResult.done
    /\ fnResult' = Returned(calculateCharacterDimensions(fnArgs.scaledWidth,
                       fnArgs.scaledHeight, fnArgs.fontSize, fnArgs.resolution))
    /\ UNCHANGED <<fnArgs, genVars, gifVars, decVars, pairVars, uiVars,
                   ditherVars, appVars>>

DimensionInit ==
    /\ fnArgs \in DimensionCalls
    /\ fnResult = NotDone
    /\ GenIdle /\ GifIdle /\ DecIdle /\ PairIdle /\ UiIdle /\ DitherIdle
    /\ AppIdle

DimensionNext == CallCalculateCharacterDimensions

SpecDimension == DimensionInit /\ [][DimensionNext]_vars

\* C28: for every image of positive width and height, every fontSize in 4..16
\* and every resolution in 50..200, calculateCharacterDimensions returns
\* integers with 20 <= charWidth <= 500 and 10 <= charHeight <= 300.
C28_WithinBounds ==
    (fnArgs.fn = "calculateCharacterDimensions" /\ fnResult.done) =>
        /\ fnResult.value.charWidth \in 20..500
        /\ fnResult.value.charHeight \in 10..300

\* ---- applyContrast on two brightnesses with one contrast setting
ContrastBrightness == {0, 100, 250, 400, 499, 500, 501, 600, 750, 900, 1000}
ContrastCalls ==
    {[fn |-> "applyContrast", b1 |-> b1, b2 |-> b2, contrast |-> c] :
        b1 \in ContrastBrightness, b2 \in ContrastBrightness,
        c \in CONTRAST_MIN..CONTRAST_MAX}

CallApplyContrast ==
    /\ fnArgs.fn = "applyContrast"
    /\ ~fnResult.done
    /\ fnResult' = Returned(<<applyContrast(fnArgs.b1, fnArgs.contrast),
                              applyContrast(fnArgs.b2, fnArgs.contrast)>>)
    /\ UNCHANGED <<fnArgs, genVars, gifVars, decVars, pairVars, uiVars,
                   ditherVars, appVars>>

ContrastInit ==
    /\ fnArgs \in ContrastCalls
    /\ fnResult = NotDone
    /\ GenIdle /\ GifIdle /\ DecIdle /\ PairIdle /\ UiIdle /\ DitherIdle
    /\ AppIdle

ContrastNext == CallApplyContrast

SpecContrast == ContrastInit /\ [][ContrastNext]_vars

\* C29: for every contrast multiplier in 0.5..2.0 applyContrast preserves the
\* order of brightness: b1 <= b2 implies applyContrast(b1, c) <=
\* applyContrast(b2, c).
C29_OrderPreserving ==
    (fnArgs.fn = "applyContrast" /\ fnResult.done /\ fnArgs.b1 <= fnArgs.b2) =>
        fnResult.value[1] <= fnResult.value[2]

(***************************************************************************)
(* ASCIIDigitizer: uploads, the preview timer, handleGenerate and the      *)
(* settings handlers, interleaved at their awaits. The timer of the ASCII  *)
(* animation (startAnimation's setTimeout) is not followed, so of          *)
(* this.state.asciiFrames only the frame displayFrame(0) shows is kept.    *)
(***************************************************************************)
MaxUploads == 2
\* frames of the GIFs uploaded: a single-frame GIF and an animated one
GifFrameCounts == {1, 2}
OtherState == <<genVars, gifVars, decVars, pairVars, uiVars, fnVars, ditherVars>>

\* gifData.frames of the n-frame GIF loaded as upload id
Frames(id, n) == [k \in 1..n |-> [gif |-> id, index |-> k - 1]]
\* what one generator call reads of this.state.settings when it is entered
Used(st) == [colored |-> st.settings.colored, inverted |-> st.settings.inverted,
             contrast |-> st.settings.contrast]
\* loadImage, from handleFileUpload with a file that is not a GIF or from
\* handleCapturePhoto, once imageProcessor.loadImage has resolved
loadImage ==
    /\ uploads < MaxUploads
    /\ uploads' = uploads + 1
    /\ state' = [state EXCEPT !.currentImage = [id |-> uploads + 1, kind |-> "static"]]
    /\ ui' = [ui EXCEPT !.generateButtonEnabled = TRUE]
    /\ UNCHANGED <<gens, timers, upload, hist>>
    /\ UNCHANGED OtherState

\* handleGIFUpload up to its second await: parseGIF has resolved
handleGIFUpload ==
    /\ uploads < MaxUploads /\ upload = NoUpload
    /\ \E n \in GifFrameCounts :
          /\ state' = [state EXCEPT !.isGIF = TRUE,
                                    !.gifFrames = Frames(uploads + 1, n)]
          /\ upload' = [pc |-> "loadImage", id |-> uploads + 1,
                        isAnimated |-> n > 1]
    /\ uploads' = uploads + 1
    /\ UNCHANGED <<ui, gens, timers, hist>>
    /\ UNCHANGED OtherState

\* handleGIFUpload from the first frame's loadImage to the createThumbnail await
GIFFirstFrameLoaded ==
    /\ upload.pc = "loadImage"
    /\ state' = [state EXCEPT !.currentImage = [id |-> upload.id, kind |-> "gif"]]
    /\ upload' = [upload EXCEPT !.pc = "createThumbnail"]
    /\ UNCHANGED <<ui, gens, timers, uploads, hist>>
    /\ UNCHANGED OtherState

\* stopOriginalGIFPreview's clearTimeout
Cleared(ts, st) == {t \in ts : t.id # st.previewAnimationId}
\* setTimeout's return value: an id that no pending timeout has
FreshTimer(ts) == CHOOSE n \in 1..(Cardinality(ts) + 1) :
                      /\ n \notin {t.id : t \in ts}
                      /\ \A m \in 1..(n - 1) : m \in {t.id : t \in ts}

\* the rest of handleGIFUpload: startOriginalGIFPreview if gifData.isAnimated
\* (stop the running preview, play frame 0, schedule the next), then enable
\* the generate button
GIFUploadDone ==
    /\ upload.pc = "createThumbnail"
    /\ IF upload.isAnimated /\ Len(state.gifFrames) > 1
       THEN LET pending == Cleared(timers, state)
            IN  /\ timers' = pending
                        \cup {[id |-> FreshTimer(pending),
                               previewFrameIndex |-> 1 % Len(state.gifFrames)]}
                /\ state' = [state EXCEPT
                                !.previewAnimationId = FreshTimer(pending)]
       ELSE UNCHANGED <<timers, state>>
    /\ ui' = [ui EXCEPT !.generateButtonEnabled = TRUE]
    /\ upload' = NoUpload
    /\ UNCHANGED <<gens, uploads, hist>>
    /\ UNCHANGED OtherState

\* a preview timeout fires: playNextPreviewFrame. this.state.gifFrames[index]
\* is undefined past the array's end and frame.dataUrl then throws, which ends
\* the chain
playNextPreviewFrame ==
    \E t \in timers :
        /\ hist' = [hist EXCEPT !.lastFire =
                       [index |-> t.previewFrameIndex,
                        frames |-> Len(state.gifFrames)]]
        /\ IF t.previewFrameIndex < Len(state.gifFrames)
           THEN LET pending == timers \ {t}
                IN  /\ timers' = pending
                          \cup {[id |-> FreshTimer(pending),
                                 previewFrameIndex |->
                                   (t.previewFrameIndex + 1) % Len(state.gifFrames)]}
                    /\ state' = [state EXCEPT
                                    !.previewAnimationId = FreshTimer(pending)]
           ELSE /\ timers' = timers \ {t}
                /\ state' = state
        /\ UNCHANGED <<ui, gens, upload, uploads>>
        /\ UNCHANGED OtherState

\* handleGenerate's guard, and the guard without its isGenerating test
CanStart_Reentrant(st) == st.currentImage # NoPicture
CanStart(st) == st.currentImage # NoPicture /\ ~st.isGenerating

\* handleGenerate's finally block, after the generation g
Finally(st, g, threw) ==
    /\ state' = [st EXCEPT !.isGenerating = FALSE]
    /\ ui' = [generateButtonEnabled |-> TRUE, isLoading |-> FALSE]
    /\ gens' = gens \ {g}
    /\ hist' = [hist EXCEPT !.failed = @ \/ threw]

\* handleGenerate called with this.state = st, up to its first await that
\* another task can interleave with: the image.onload of the first GIF frame,
\* or the generator's first yield
Generate(st, h) ==
    IF ~CanStart(st)
    THEN state' = st /\ hist' = h /\ UNCHANGED <<ui, gens>>
    ELSE LET path == IF st.isGIF /\ Len(st.gifFrames) > 1 THEN "gif" ELSE "single"
             g == [path |-> path, image |-> st.currentImage,
                   pc |-> IF path = "gif" THEN "onload" ELSE "generating",
                   gif |-> IF path = "gif" THEN st.gifFrames[1].gif ELSE 0,
                   i |-> 0, frameCount |-> Len(st.gifFrames),
                   used |-> Used(st), asciiFrames |-> <<>>]
         IN  \/ /\ state' = [st EXCEPT !.isGenerating = TRUE]
                /\ ui' = [generateButtonEnabled |-> FALSE, isLoading |-> TRUE]
                /\ gens' = gens \cup {g}
                /\ hist' = h
             \/ \* processImageToCharacterSize or the generator throws
                /\ path = "single"
                /\ state' = st
                /\ ui' = [generateButtonEnabled |-> TRUE, isLoading |-> FALSE]
                /\ gens' = gens
                /\ hist' = [h EXCEPT !.failed = TRUE]

handleGenerate ==
    /\ Generate(state, hist)
    /\ UNCHANGED <<timers, upload, uploads>>
    /\ UNCHANGED OtherState

\* generateGIFASCII after frameImage.onload: settings.colored is read, the
\* generator is entered with this.state.settings and runs to its first yield
GIFFrameLoaded ==
    \E g \in gens :
        /\ g.pc = "onload"
        /\ \/ /\ gens' = (gens \ {g})
                         \cup {[g EXCEPT !.pc = "generating", !.used = Used(state)]}
              /\ UNCHANGED <<state, ui, hist>>
           \/ Finally(state, g, TRUE)
        /\ UNCHANGED <<timers, upload, uploads>>
        /\ UNCHANGED OtherState

\* the loop's next iteration, or its end: store asciiFrames, displayFrame(0),
\* startAnimation, return into handleGenerate's finally
NextFrame(g, pushed) ==
    IF g.i + 1 < g.frameCount
    THEN IF g.i + 1 < Len(state.gifFrames)
         THEN /\ gens' = (gens \ {g})
                         \cup {[g EXCEPT !.pc = "onload", !.i = g.i + 1,
                                         !.asciiFrames = pushed]}
              /\ UNCHANGED <<state, ui, hist>>
         ELSE \* frame = undefined: frame.imageData throws
              Finally(state, g, TRUE)
    ELSE Finally([state EXCEPT
                     !.asciiText = "art",
                     !.coloredData =
                         IF state.settings.colored /\ pushed[1].colored
                         THEN "data" ELSE Null],
                 g, FALSE)

\* the generator returns
GeneratorReturns ==
    \E g \in gens :
        /\ g.pc = "generating"
        /\ IF g.path = "single"
           THEN \* generateMonochromeASCII / generateColoredASCII up to their yield
                /\ state' = [state EXCEPT
                                !.asciiText = "art",
                                !.coloredData = IF g.used.colored THEN "data" ELSE Null]
                /\ gens' = (gens \ {g}) \cup {[g EXCEPT !.pc = "displayed"]}
                /\ UNCHANGED <<ui, hist>>
           ELSE LET pushed == Append(g.asciiFrames, g.used)
                IN  IF g.i % 5 = 0
                    THEN /\ gens' = (gens \ {g})
                                    \cup {[g EXCEPT !.pc = "yield",
                                                    !.asciiFrames = pushed]}
                         /\ UNCHANGED <<state, ui, hist>>
                    ELSE NextFrame(g, pushed)
        /\ UNCHANGED <<timers, upload, uploads>>
        /\ UNCHANGED OtherState

\* the await loadingService.yield() after a frame, or after the single grid
\* was displayed
YieldResumes ==
    \E g \in gens :
        /\ g.pc \in {"yield", "displayed"}
        /\ IF g.pc = "yield" THEN NextFrame(g, g.asciiFrames)
           ELSE Finally(state, g, FALSE)
        /\ UNCHANGED <<timers, upload, uploads>>
        /\ UNCHANGED OtherState

\* the checkbox changed: settings.colored = checked, and handleGenerate() if
\* ASCII art exists
handleColorToggle ==
    LET st == [state EXCEPT !.settings.colored = ~state.settings.colored]
    IN  /\ IF state.asciiText # ""
           THEN Generate(st, [hist EXCEPT !.toggledWithArt = TRUE])
           ELSE state' = st /\ UNCHANGED <<ui, gens, hist>>
        /\ UNCHANGED <<timers, upload, uploads>>
        /\ UNCHANGED OtherState

handleInvertToggle ==
    /\ state' = [state EXCEPT !.settings.inverted = ~state.settings.inverted]
    /\ UNCHANGED <<ui, gens, timers, upload, uploads, hist>>
    /\ UNCHANGED OtherState

AppInit == AppIdle /\ GenIdle /\ GifIdle /\ DecIdle /\ PairIdle /\ UiIdle
           /\ FnIdle /\ DitherIdle

AppNext ==
    \/ loadImage
    \/ handleGIFUpload
    \/ GIFFirstFrameLoaded
    \/ GIFUploadDone
    \/ playNextPreviewFrame
    \/ handleGenerate
    \/ GIFFrameLoaded
    \/ GeneratorReturns
    \/ YieldResumes
    \/ handleColorToggle
    \/ handleInvertToggle

SpecApp == AppInit /\ [][AppNext]_vars

\* C23: the settings of a generation are fixed when it starts: every frame of
\* one GIF generation is produced with the same colored / inverted / contrast
\* values, whatever settings events are handled while it is suspended.
C23_SettingsFixed ==
    \A g \in gens :
        \A a \in DOMAIN g.asciiFrames :
            /\ g.asciiFrames[a] = g.asciiFrames[1]
            /\ g.pc = "generating" => g.used = g.asciiFrames[a]

\* C24: at most one generation is in flight: isGenerating is true exactly
\* while one is, a handleGenerate call met by isGenerating = true starts
\* none, and once a started generation has exited (returned or thrown) with
\* none in flight the generate button is enabled and the overlay is hidden.
C24_OneGeneration ==
    /\ Cardinality(gens) <= 1
    /\ state.isGenerating <=> gens # {}
    /\ gens # {} => ui.isLoading
    /\ (gens = {} /\ (hist.failed \/ state.asciiText # "")) =>
           (ui.generateButtonEnabled /\ ~ui.isLoading)

\* a generation that was started and has thrown, and one that has returned
C24_Witness ==
    /\ gens = {} /\ hist.failed /\ state.asciiText # ""
    /\ state.currentImage.kind = "gif"

\* C25: once a static image or a camera capture has been loaded after an
\* animated GIF, handleGenerate takes the single-frame path on it: a
\* generation whose current image is static converts GIF frames only if that
\* GIF was uploaded after the image.
C25_LatestImage ==
    \A g \in gens :
        (g.image.kind = "static" /\ g.path = "gif") => g.gif > g.image.id

\* C26: whenever the preview timer fires its index is a valid index into
\* this.state.gifFrames, and at most one timer chain is pending.
C26_PreviewIndexValid ==
    /\ hist.lastFire.index < hist.lastFire.frames
    /\ Cardinality(timers) <= 1

\* C30: a colour toggle made while ASCII art exists is not lost: when no
\* generation is in flight (and none has thrown) coloredData is non-null
\* exactly if settings.colored is true.
C30_ToggleNotLost ==
    (hist.toggledWithArt /\ gens = {} /\ ~hist.failed) =>
        (state.coloredData # Null <=> state.settings.colored)

=============================================================================
